---- MODULE Spec2Model ----
(***************************************************************************)
(* exclude_entry_compiler, src/main.rs: the `compile` sub-command (flag    *)
(* validation, syntax_check of the JSON source, opening of the output      *)
(* file, assembly and write of the rule text) and the parsing of a header  *)
(* token by HeaderAttribute::from_str.                                     *)
(*                                                                         *)
(* Text (Rust String / &str) is a sequence of characters, each character a *)
(* one-character string.  A JSON object is a record whose DOMAIN is the    *)
(* set of its keys.                                                        *)
(***************************************************************************)
EXTENDS Naturals, Sequences, FiniteSets, TLC

VARIABLES
    target,             \* compile argument: CompileTarget
    feature_flags,      \* compile argument: &[GenerateTargetPlatform]
    header_attributes,  \* compile argument: &[HeaderAttribute]
    input_file,         \* the file at path input_file: readable?, JSON value
    output_file,        \* the file at path output_file: exists?, content
    output_before,      \* history: output_file as it was when compile was called
    pc,                 \* index into compile_steps of the next statement group
    list,               \* local `list`: the EntryList syntax_check returned
    result,             \* how compile ended ("running" until it does)
    io_log,             \* history of the file operations performed so far
    token,              \* argument s of HeaderAttribute::from_str
    parsed              \* what from_str returned for token

vars == <<target, feature_flags, header_attributes, input_file, output_file,
          output_before, pc, list, result, io_log, token, parsed>>

---------------------------------------------------------------------------
(* Bounds of the model.                                                    *)

MaxEntries == 2

MaxTokenLen == 4

---------------------------------------------------------------------------
(* Strings.                                                                *)

\* the characters that occur in `s`, as a predicate: slice::contains
Contains(s, x) == \E i \in 1..Len(s) : s[i] = x

\* Iterator<Item = String>::collect::<String>() and [String]::join("")
RECURSIVE Collect(_)
Collect(strs) ==
    IF strs = <<>> THEN <<>> ELSE Head(strs) \o Collect(Tail(strs))

\* [String]::join(sep): the separator between consecutive items only
RECURSIVE Join(_, _)
Join(strs, sep) ==
    IF strs = <<>> THEN <<>>
    ELSE IF Len(strs) = 1 THEN Head(strs)
    ELSE Head(strs) \o sep \o Join(Tail(strs), sep)

---------------------------------------------------------------------------
(* HeaderAttribute::from_str                                               *)

\* a bug split_once could have: splitting at the last '='
split_once_last(s, delim) ==
    IF ~Contains(s, delim) THEN [some |-> FALSE, before |-> <<>>, after |-> <<>>]
    ELSE LET i == CHOOSE k \in 1..Len(s) :
                      /\ s[k] = delim
                      /\ \A j \in (k + 1)..Len(s) : s[j] # delim
         IN  [some |-> TRUE,
              before |-> SubSeq(s, 1, i - 1),
              after |-> SubSeq(s, i + 1, Len(s))]

\* str::split_once('='): None, or the text before and after the first '='
split_once(s, delim) ==
    IF ~Contains(s, delim) THEN [some |-> FALSE, before |-> <<>>, after |-> <<>>]
    ELSE LET i == CHOOSE k \in 1..Len(s) :
                      /\ s[k] = delim
                      /\ \A j \in 1..(k - 1) : s[j] # delim
         IN  [some |-> TRUE,
              before |-> SubSeq(s, 1, i - 1),
              after |-> SubSeq(s, i + 1, Len(s))]

\* HeaderAttribute::from_str: Err(()) when there is no '='
from_str(s) ==
    LET kv == split_once(s, "=")
    IN  IF kv.some
        THEN [ok |-> TRUE, key |-> kv.before, value |-> kv.after]
        ELSE [ok |-> FALSE, key |-> <<>>, value |-> <<>>]

---------------------------------------------------------------------------
(* Entries and their deserialization (serde, #[serde(tag = "type")]).      *)

Domain(m, d) == [variant |-> "Domain", match_method |-> m, domain |-> d]

Path(m, p) == [variant |-> "Path", match_method |-> m, path |-> p]

\* MatchMethod::from_str (strum): "literal" is the only accepted spelling
MatchMethod_from_str(s) ==
    IF s = "literal" THEN [ok |-> TRUE, v |-> "Literal"]
    ELSE [ok |-> FALSE, v |-> "Literal"]

NoEntry == [ok |-> FALSE, entry |-> Domain("Literal", <<>>)]

\* Deserialize for Entry: the tag selects the variant; the variant's fields
\* `match` and `domain` / `path` are required; other keys are ignored.
deserialize_entry(obj) ==
    IF "type" \notin DOMAIN obj THEN NoEntry
    ELSE IF obj.type = "domain" THEN
        IF /\ "match" \in DOMAIN obj
           /\ MatchMethod_from_str(obj.match).ok
           /\ "domain" \in DOMAIN obj
        THEN [ok |-> TRUE,
              entry |-> Domain(MatchMethod_from_str(obj.match).v, obj.domain)]
        ELSE NoEntry
    ELSE IF obj.type = "path" THEN
        IF /\ "match" \in DOMAIN obj
           /\ MatchMethod_from_str(obj.match).ok
           /\ "path" \in DOMAIN obj
        THEN [ok |-> TRUE,
              entry |-> Path(MatchMethod_from_str(obj.match).v, obj.path)]
        ELSE NoEntry
    ELSE NoEntry

\* syntax_check: File::open / read_to_string, then serde_json::from_str
syntax_check(file) ==
    IF ~file.readable THEN [status |-> "Io", list |-> <<>>]
    ELSE IF ~file.json.is_array THEN [status |-> "Deserialize", list |-> <<>>]
    ELSE IF \E i \in 1..Len(file.json.items) :
                ~deserialize_entry(file.json.items[i]).ok
         THEN [status |-> "Deserialize", list |-> <<>>]
    ELSE [status |-> "Ok",
          list |-> [i \in 1..Len(file.json.items) |->
                        deserialize_entry(file.json.items[i]).entry]]

---------------------------------------------------------------------------
(* compile: flag validation.                                               *)

\* a bug the validation could have: no short-circuit on an empty flag list
flag_check_no_empty(t, flags) ==
    IF t # "UBlockOrigin" /\ Contains(flags, "GoogleSearchPrefix")
    THEN "UnsupportedFeatureSet"
    ELSE IF Contains(flags, "GoogleSearchPrefix")
            /\ Contains(flags, "GoogleSearchFuzzy")
    THEN "Exit1"
    ELSE "Continue"

\* a bug: the mutual-exclusion test made before the target test
flag_check_swapped(t, flags) ==
    IF flags = <<>> THEN "Ok"
    ELSE IF Contains(flags, "GoogleSearchPrefix")
            /\ Contains(flags, "GoogleSearchFuzzy")
    THEN "Exit1"
    ELSE IF t # "UBlockOrigin" /\ Contains(flags, "GoogleSearchPrefix")
    THEN "UnsupportedFeatureSet"
    ELSE "Continue"

\* a bug: the mutual-exclusion test missing
flag_check_no_exclusion(t, flags) ==
    IF flags = <<>> THEN "Ok"
    ELSE IF t # "UBlockOrigin" /\ Contains(flags, "GoogleSearchPrefix")
    THEN "UnsupportedFeatureSet"
    ELSE "Continue"

\* lines 173-188: return Ok(()), return Err(UnsupportedFeatureSet), exit(1),
\* or fall through to the rest of compile
flag_check(t, flags) ==
    IF flags = <<>> THEN "Ok"
    ELSE IF t # "UBlockOrigin" /\ Contains(flags, "GoogleSearchPrefix")
    THEN "UnsupportedFeatureSet"
    ELSE IF Contains(flags, "GoogleSearchPrefix")
            /\ Contains(flags, "GoogleSearchFuzzy")
    THEN "Exit1"
    ELSE "Continue"

---------------------------------------------------------------------------
(* compile: the blocks of the output.                                      *)

comment_always_hash(t) == <<"#">>

\* let comment = match target { ... }
comment(t) == IF t = "UBlackList" THEN <<"#">> ELSE <<"!">>

\* the closure of the header map: "<comment> <key>: <value>\n"
header_line(t, x) ==
    comment(t) \o <<" ">> \o x.key \o <<":", " ">> \o x.value \o <<"\n">>

\* determine_header_attribute_length: the capacity reserved for one line
determine_header_attribute_length(attr) ==
    2 + Len(attr.key) + 2 + Len(attr.value) + 1

header(t, attrs) == Collect([i \in 1..Len(attrs) |-> header_line(t, attrs[i])])

\* a bug: the uBlacklist path rule given the domain rule's trailing "/*"
base_rule_path_as_domain(t, x) ==
    IF t = "UBlackList"
    THEN IF x.variant = "Domain"
         THEN <<"*", ":", "/", "/">> \o x.domain \o <<"/", "*", "\n">>
         ELSE <<"*", ":", "/", "/">> \o x.path \o <<"/", "*", "\n">>
    ELSE IF x.variant = "Domain"
         THEN <<"|", "|">> \o x.domain \o <<"^", "\n">>
         ELSE <<"|", "|">> \o x.path \o <<"^", "\n">>

\* the closures of the two Base maps (match_method is Literal, the only one)
base_rule(t, x) ==
    IF t = "UBlackList"
    THEN IF x.variant = "Domain"
         THEN <<"*", ":", "/", "/">> \o x.domain \o <<"/", "*", "\n">>
         ELSE <<"*", ":", "/", "/">> \o x.path \o <<"\n">>
    ELSE IF x.variant = "Domain"
         THEN <<"|", "|">> \o x.domain \o <<"^", "\n">>
         ELSE <<"|", "|">> \o x.path \o <<"^", "\n">>

entry_serialize(t, l) == Collect([i \in 1..Len(l) |-> base_rule(t, l[i])])

href_operator_always_fuzzy(google_search_prefix) == <<"*", "=">>

\* let href_operator = if google_search_prefix { "^=" } else { "*=" }
href_operator(google_search_prefix) ==
    IF google_search_prefix THEN <<"^", "=">> ELSE <<"*", "=">>

\* the filter_map closure: the payload of a Literal entry
RECURSIVE literal_specs(_)
literal_specs(l) ==
    IF l = <<>> THEN <<>>
    ELSE LET x == Head(l)
             rest == literal_specs(Tail(l))
         IN  IF x.match_method = "Literal"
             THEN <<IF x.variant = "Domain" THEN x.domain ELSE x.path>> \o rest
             ELSE rest

\* the flat_map closure: the two rules of one href_spec
google_pair(op, href_spec) ==
    << <<"w", "w", "w", ".", "g", "o", "o", "g", "l", "e", ".", "*", "#", "#",
         ".", "g", ":", "h", "a", "s", "(", "a", "[", "h", "r", "e", "f">>
         \o op \o <<"\"">> \o href_spec \o <<"\"", ")">>,
       <<"w", "w", "w", ".", "g", "o", "o", "g", "l", "e", ".", "*", "#", "#",
         ".", "a", "[", "h", "r", "e", "f">>
         \o op \o <<"\"">> \o href_spec
         \o <<"\"", "]", ":", "u", "p", "w", "a", "r", "d", "(", "1", ")">> >>

RECURSIVE flat_map_pairs(_, _)
flat_map_pairs(op, specs) ==
    IF specs = <<>> THEN <<>>
    ELSE google_pair(op, Head(specs)) \o flat_map_pairs(op, Tail(specs))

\* lines 264-285: cp
google_rules(flags, l) ==
    Join(flat_map_pairs(href_operator(Contains(flags, "GoogleSearchPrefix")),
                        literal_specs(l)),
         <<"\n">>)

\* a bug: the Google block pushed before the Base block
outputs_google_first(t, flags, attrs, l) ==
    <<header(t, attrs)>>
    \o (IF Contains(flags, "GoogleSearchPrefix")
           \/ Contains(flags, "GoogleSearchFuzzy")
        THEN <<google_rules(flags, l)>> ELSE <<>>)
    \o (IF Contains(flags, "Base") THEN <<entry_serialize(t, l)>> ELSE <<>>)

\* lines 206-291: the vector `outputs` after the last push
outputs(t, flags, attrs, l) ==
    <<header(t, attrs)>>
    \o (IF Contains(flags, "Base") THEN <<entry_serialize(t, l)>> ELSE <<>>)
    \o (IF Contains(flags, "GoogleSearchPrefix")
           \/ Contains(flags, "GoogleSearchFuzzy")
        THEN <<google_rules(flags, l)>> ELSE <<>>)

---------------------------------------------------------------------------
(* The inputs of the model.                                                *)

CompileTarget == {"UBlackList", "UBlockOrigin"}

GenerateTargetPlatform == {"Base", "GoogleSearchPrefix", "GoogleSearchFuzzy"}

\* every list of distinct flags, in every order
FlagLists ==
    {f \in UNION {[1..n -> GenerateTargetPlatform] :
                     n \in 0..Cardinality(GenerateTargetPlatform)} :
        \A i, j \in 1..Len(f) : i # j => f[i] # f[j]}

\* payload strings, the empty one included (JSON allows "")
Payloads == {<<>>, <<"a">>, <<"b", ".", "c">>}

\* JSON objects of the source array: the well-formed records, and records
\* with an unknown tag, an unknown match method and a missing payload key
Objects ==
    {[type |-> "domain", match |-> "literal", domain |-> p] : p \in Payloads}
    \cup {[type |-> "path", match |-> "literal", path |-> p] : p \in Payloads}
    \cup {[type |-> "host", match |-> "literal", domain |-> <<"a">>],
          [type |-> "domain", match |-> "regex", domain |-> <<"a">>],
          [type |-> "path", match |-> "literal", domain |-> <<"a">>]}

InputFiles ==
    {[readable |-> FALSE, json |-> [is_array |-> FALSE, items |-> <<>>]],
     [readable |-> TRUE, json |-> [is_array |-> FALSE, items |-> <<>>]]}
    \cup {[readable |-> TRUE, json |-> [is_array |-> TRUE, items |-> items]] :
             items \in UNION {[1..n -> Objects] : n \in 0..MaxEntries}}

OutputFiles ==
    {[exists |-> FALSE, content |-> <<>>],
     [exists |-> TRUE, content |-> <<"o", "l", "d", "\n">>]}

HeaderTokens == {<<"k", "=", "v">>, <<"s", "=", "a", "=", "b">>}

\* the header lists clap builds: every list of distinct parsed tokens
HeaderLists ==
    {h \in UNION {[1..n -> {[key |-> from_str(s).key,
                             value |-> from_str(s).value] : s \in HeaderTokens}] :
                     n \in 0..Cardinality(HeaderTokens)} :
        \A i, j \in 1..Len(h) : i # j => h[i] # h[j]}

TokenChars == {"k", "=", "v"}

Tokens == UNION {[1..n -> TokenChars] : n \in 0..MaxTokenLen}

NotParsed == [ok |-> FALSE, key |-> <<>>, value |-> <<>>]

---------------------------------------------------------------------------
(* compile as a state machine: its statements in program order, one action *)
(* per group of statements between two file operations.                    *)

\* a bug: the output file opened before the source is read and parsed
compile_steps_open_first == <<"flags", "open", "syntax_check", "write">>

\* the order of the statement groups of compile
compile_steps == <<"flags", "syntax_check", "open", "write">>

Done == Len(compile_steps) + 1

AtStep(s) == pc \in 1..Len(compile_steps) /\ compile_steps[pc] = s

\* lines 173-190
CheckFlags ==
    /\ AtStep("flags")
    /\ LET r == flag_check(target, feature_flags)
       IN  IF r = "Continue"
           THEN pc' = pc + 1 /\ UNCHANGED result
           ELSE pc' = Done /\ result' = r
    /\ UNCHANGED <<target, feature_flags, header_attributes, input_file,
                   output_file, list, io_log>>
    /\ UNCHANGED <<output_before, token, parsed>>

\* line 192: let list = syntax_check(input_file)?;
SyntaxCheck ==
    /\ AtStep("syntax_check")
    /\ LET r == syntax_check(input_file)
       IN  /\ io_log' = Append(io_log, "read_input")
           /\ IF r.status = "Ok"
              THEN pc' = pc + 1 /\ list' = r.list /\ UNCHANGED result
              ELSE /\ pc' = Done
                   /\ result' = IF r.status = "Io" THEN "Syntax(Io)"
                                ELSE "Syntax(Deserialize)"
                   /\ UNCHANGED list
    /\ UNCHANGED <<target, feature_flags, header_attributes, input_file,
                   output_file>>
    /\ UNCHANGED <<output_before, token, parsed>>

\* lines 197-199: File::options().write(true).truncate(true).create(true).open
\* The open can fail (a directory, no permission): the file is left alone.
OpenOutput ==
    /\ AtStep("open")
    /\ \E opened \in BOOLEAN :
          IF opened
          THEN /\ output_file' = [exists |-> TRUE, content |-> <<>>]
               /\ io_log' = Append(io_log, "open_output")
               /\ pc' = pc + 1
               /\ UNCHANGED result
          ELSE /\ result' = "Io"
               /\ pc' = Done
               /\ UNCHANGED <<output_file, io_log>>
    /\ UNCHANGED <<target, feature_flags, header_attributes, input_file, list>>
    /\ UNCHANGED <<output_before, token, parsed>>

\* lines 201-299: assemble `outputs`, then writer.write_all(outputs.join(""))
\* A failing write leaves the truncated file.
AssembleAndWrite ==
    /\ AtStep("write")
    /\ \E written \in BOOLEAN :
          IF written
          THEN /\ output_file' =
                     [exists |-> TRUE,
                      content |-> output_file.content
                                  \o Collect(outputs(target, feature_flags,
                                                     header_attributes, list))]
               /\ io_log' = Append(io_log, "write_output")
               /\ result' = "Ok"
          ELSE /\ result' = "Io"
               /\ UNCHANGED <<output_file, io_log>>
    /\ pc' = Done
    /\ UNCHANGED <<target, feature_flags, header_attributes, input_file, list>>
    /\ UNCHANGED <<output_before, token, parsed>>

Init ==
    /\ target \in CompileTarget
    /\ feature_flags \in FlagLists
    /\ header_attributes \in HeaderLists
    /\ input_file \in InputFiles
    /\ output_file \in OutputFiles
    /\ output_before = output_file
    /\ pc = 1
    /\ list = <<>>
    /\ result = "running"
    /\ io_log = <<>>
    /\ token = <<>>
    /\ parsed = NotParsed

Next == CheckFlags \/ SyntaxCheck \/ OpenOutput \/ AssembleAndWrite

Spec == Init /\ [][Next]_vars

---------------------------------------------------------------------------
(* HeaderAttribute::from_str on its own: clap calls it once per -h token.  *)

ParseHeader ==
    /\ pc = 1
    /\ parsed' = from_str(token)
    /\ pc' = Done
    /\ UNCHANGED <<target, feature_flags, header_attributes, input_file,
                   output_file, output_before, list, result, io_log, token>>

HeaderInit ==
    /\ target = "UBlockOrigin"
    /\ feature_flags = <<>>
    /\ header_attributes = <<>>
    /\ input_file = [readable |-> FALSE,
                     json |-> [is_array |-> FALSE, items |-> <<>>]]
    /\ output_file = [exists |-> FALSE, content |-> <<>>]
    /\ output_before = output_file
    /\ pc = 1
    /\ list = <<>>
    /\ result = "running"
    /\ io_log = <<>>
    /\ token \in Tokens
    /\ parsed = NotParsed

HeaderNext == ParseHeader

HeaderSpec == HeaderInit /\ [][HeaderNext]_vars

---------------------------------------------------------------------------
(* Properties.  What the output must be is written here from the           *)
(* documented contract, independently of the definitions above.            *)

FlagSet == {feature_flags[i] : i \in 1..Len(feature_flags)}

Untouched == output_file = output_before /\ io_log = <<>>

\* the text compile handed to the writer, empty when it wrote nothing
Emitted ==
    IF Contains(io_log, "write_output") THEN output_file.content ELSE <<>>

PayloadOf(e) == IF e.variant = "Domain" THEN e.domain ELSE e.path

\* C1: with an empty feature-flag list compile returns Ok whatever the
\* entries, the header attributes and the target are, and emits no text: no
\* header line, no rule line (the output file is not even opened).
C1_EmptyFlagsNoOp ==
    feature_flags = <<>> =>
        /\ pc \in {1, Done}
        /\ Emitted = <<>>
        /\ Untouched
        /\ pc = Done => result = "Ok"

C1_Witness ==
    /\ feature_flags = <<>>
    /\ pc = Done
    /\ result = "Ok"
    /\ Len(header_attributes) = 2
    /\ input_file.readable /\ Len(input_file.json.items) = 2
    /\ output_before.exists

\* C2: with target UBlackList and GoogleSearchPrefix among the flags compile
\* ends with UnsupportedFeatureSet, whatever the other flags, the header
\* attributes and the state of the input source are.
C2_UnsupportedFeatureSet ==
    (target = "UBlackList" /\ "GoogleSearchPrefix" \in FlagSet) =>
        /\ pc \in {1, Done}
        /\ pc = Done => result = "UnsupportedFeatureSet"

C2_Witness ==
    /\ target = "UBlackList"
    /\ FlagSet = {"Base", "GoogleSearchPrefix", "GoogleSearchFuzzy"}
    /\ ~input_file.readable
    /\ pc = Done
    /\ result = "UnsupportedFeatureSet"

\* C3, as stated: with both GoogleSearchPrefix and GoogleSearchFuzzy among
\* the flags compile reports the usage conflict (the exit, not
\* UnsupportedFeatureSet) for any target, and the output file is untouched.
C3_ConflictAnyTarget ==
    ({"GoogleSearchPrefix", "GoogleSearchFuzzy"} \subseteq FlagSet /\ pc = Done)
        => (result = "Exit1" /\ Untouched)

\* C3, amended: with both Google flags compile ends before any file
\* operation; for target UBlockOrigin it reports the usage conflict and
\* exits, for target UBlackList the target test comes first and it returns
\* UnsupportedFeatureSet.
C3_ConflictByTarget ==
    {"GoogleSearchPrefix", "GoogleSearchFuzzy"} \subseteq FlagSet =>
        /\ pc \in {1, Done}
        /\ Untouched
        /\ pc = Done =>
              result = IF target = "UBlockOrigin" THEN "Exit1"
                       ELSE "UnsupportedFeatureSet"

C3_Witness ==
    /\ target = "UBlockOrigin"
    /\ {"GoogleSearchPrefix", "GoogleSearchFuzzy"} \subseteq FlagSet
    /\ pc = Done
    /\ result = "Exit1"
    /\ output_before.exists /\ output_file = output_before

\* the length of the header block, from the reserved capacities
HeaderLen ==
    LET n == Len(header_attributes)
        RECURSIVE Sum(_)
        Sum(i) == IF i = 0 THEN 0
                  ELSE determine_header_attribute_length(header_attributes[i])
                       + Sum(i - 1)
    IN  Sum(n)

\* the general rule of one entry, per the dialect table, without line end
C4_Rule(t, e) ==
    IF t = "UBlockOrigin" THEN <<"|", "|">> \o PayloadOf(e) \o <<"^">>
    ELSE IF e.variant = "Domain"
         THEN <<"*", ":", "/", "/">> \o e.domain \o <<"/", "*">>
         ELSE <<"*", ":", "/", "/">> \o e.path

RECURSIVE C4_Block(_, _)
C4_Block(t, l) ==
    IF l = <<>> THEN <<>>
    ELSE C4_Block(t, SubSeq(l, 1, Len(l) - 1))
         \o C4_Rule(t, l[Len(l)]) \o <<"\n">>

\* C4: when Base is among the flags and compile succeeds, the text that
\* follows the header block is, for each entry in input order, the target's
\* general rule with the payload embedded verbatim and a line end, and
\* nothing else; without a Google flag the output ends there.
C4_BaseBlock ==
    (result = "Ok" /\ "Base" \in FlagSet) =>
        LET b == C4_Block(target, list)
            c == output_file.content
        IN  /\ Len(c) >= HeaderLen + Len(b)
            /\ SubSeq(c, HeaderLen + 1, HeaderLen + Len(b)) = b
            /\ FlagSet = {"Base"} => Len(c) = HeaderLen + Len(b)

C4_Witness ==
    /\ result = "Ok"
    /\ FlagSet = {"Base"}
    /\ target = "UBlackList"
    /\ Len(list) = 2
    /\ list[1].variant = "Path" /\ list[1].path = <<"b", ".", "c">>
    /\ list[2].variant = "Domain" /\ list[2].domain = <<"a">>
    /\ Len(header_attributes) = 1

\* the two Google rules of payload s, per the documented templates
C5_Has(op, s) ==
    <<"w", "w", "w", ".", "g", "o", "o", "g", "l", "e", ".", "*", "#", "#",
      ".", "g", ":", "h", "a", "s", "(", "a", "[", "h", "r", "e", "f">>
    \o op \o <<"\"">> \o s \o <<"\"", ")">>

C5_Upward(op, s) ==
    <<"w", "w", "w", ".", "g", "o", "o", "g", "l", "e", ".", "*", "#", "#",
      ".", "a", "[", "h", "r", "e", "f">>
    \o op \o <<"\"">> \o s
    \o <<"\"", "]", ":", "u", "p", "w", "a", "r", "d", "(", "1", ")">>

\* the 2n lines of n entries, in input order
C5_Lines(op, l) ==
    [k \in 1..(2 * Len(l)) |->
        IF k % 2 = 1 THEN C5_Has(op, PayloadOf(l[(k + 1) \div 2]))
        ELSE C5_Upward(op, PayloadOf(l[k \div 2]))]

\* lines separated by one line break, none before the first or after the last
RECURSIVE C5_Separated(_)
C5_Separated(lines) ==
    IF lines = <<>> THEN <<>>
    ELSE LET init == SubSeq(lines, 1, Len(lines) - 1)
         IN  (IF init = <<>> THEN <<>> ELSE C5_Separated(init) \o <<"\n">>)
             \o lines[Len(lines)]

C5_Op ==
    IF "GoogleSearchPrefix" \in FlagSet THEN <<"^", "=">> ELSE <<"*", "=">>

\* C5: when one of GoogleSearchPrefix / GoogleSearchFuzzy is among the flags
\* and compile succeeds, the output ends with the Google block: for each
\* (Literal) entry in input order the has-rule then the upward-rule of its
\* payload, both with "^=" for GoogleSearchPrefix and "*=" for
\* GoogleSearchFuzzy, separated by single line breaks, with no line break
\* before the first or after the last; no entry gives an empty block.
C5_GoogleBlock ==
    (result = "Ok" /\ FlagSet \cap {"GoogleSearchPrefix", "GoogleSearchFuzzy"} # {}) =>
        LET g == C5_Separated(C5_Lines(C5_Op, list))
            c == output_file.content
            b == IF "Base" \in FlagSet THEN Len(C4_Block(target, list)) ELSE 0
        IN  /\ \A i \in 1..Len(list) : list[i].match_method = "Literal"
            /\ Len(c) = HeaderLen + b + Len(g)
            /\ SubSeq(c, HeaderLen + b + 1, Len(c)) = g
            /\ list = <<>> => g = <<>>

C5_Witness ==
    /\ result = "Ok"
    /\ FlagSet = {"GoogleSearchPrefix"}
    /\ Len(list) = 2
    /\ list[1].variant = "Domain" /\ list[1].domain = <<"b", ".", "c">>
    /\ list[2].variant = "Path" /\ list[2].path = <<"a">>
    /\ Len(C5_Lines(C5_Op, list)) = 4

C6_Prefix == IF target = "UBlackList" THEN <<"#">> ELSE <<"!">>

RECURSIVE C6_Header(_)
C6_Header(attrs) ==
    IF attrs = <<>> THEN <<>>
    ELSE C6_Header(SubSeq(attrs, 1, Len(attrs) - 1))
         \o C6_Prefix \o <<" ">> \o attrs[Len(attrs)].key \o <<":", " ">>
         \o attrs[Len(attrs)].value \o <<"\n">>

\* C6: whenever compile succeeds with a non-empty flag list, whichever flags
\* they are, the output begins with the header block: for each header
\* attribute in the order supplied "<prefix> <key>: <value>" and a line
\* end, the prefix "#" for UBlackList and "!" for UBlockOrigin; no attribute
\* gives an empty header block.
C6_HeaderBlock ==
    (result = "Ok" /\ feature_flags # <<>>) =>
        LET h == C6_Header(header_attributes)
            c == output_file.content
        IN  /\ Len(h) = HeaderLen
            /\ Len(c) >= Len(h)
            /\ SubSeq(c, 1, Len(h)) = h
            /\ header_attributes = <<>> => h = <<>>

C6_Witness ==
    /\ result = "Ok"
    /\ FlagSet = {"GoogleSearchFuzzy"}
    /\ target = "UBlackList"
    /\ Len(header_attributes) = 2
    /\ header_attributes[1].key = <<"s">>
    /\ header_attributes[1].value = <<"a", "=", "b">>
    /\ list # <<>>

\* C7: the text a successful compile writes is the header block, then the
\* base block if Base is among the flags, then the Google block if a Google
\* flag is among them, with nothing between the blocks; it depends on which
\* flags are given, not on their order.
C7_Assembly ==
    (result = "Ok" /\ feature_flags # <<>>) =>
        output_file.content =
            C6_Header(header_attributes)
            \o (IF "Base" \in FlagSet THEN C4_Block(target, list) ELSE <<>>)
            \o (IF FlagSet \cap {"GoogleSearchPrefix", "GoogleSearchFuzzy"} # {}
                THEN C5_Separated(C5_Lines(C5_Op, list)) ELSE <<>>)

C7_Witness ==
    /\ result = "Ok"
    /\ feature_flags = <<"GoogleSearchFuzzy", "Base">>
    /\ Len(list) = 2
    /\ Len(header_attributes) = 1

\* C8: from_str splits the token at its first '=': the key is the text
\* before it (so the key holds no '='), the value all the text after it (so
\* the value may hold '='); a token without '=' is rejected.
C8_SplitAtFirst ==
    pc = Done =>
        IF Contains(token, "=")
        THEN /\ parsed.ok
             /\ parsed.key \o <<"=">> \o parsed.value = token
             /\ ~Contains(parsed.key, "=")
        ELSE ~parsed.ok

C8_Witness ==
    /\ pc = Done
    /\ parsed.ok
    /\ parsed.key = <<"k">>
    /\ Contains(parsed.value, "=")

\* C9, as stated: every entry that syntax_check returned and compile turned
\* into rules has a non-empty payload.
C9_PayloadNonEmpty ==
    (result = "Ok" /\ feature_flags # <<>>) =>
        \A i \in 1..Len(list) : PayloadOf(list[i]) # <<>>

\* C10: the file operations of compile happen in the order read of the
\* input, open of the output, one write; flag validation precedes them all;
\* and when compile ends with UnsupportedFeatureSet or with the Io or
\* Deserialize error of the input, the output file is as it was before the
\* call: not created, not truncated, nothing written.
C10_NoWriteOnEarlyError ==
    /\ \E n \in 0..3 :
          io_log = SubSeq(<<"read_input", "open_output", "write_output">>, 1, n)
    /\ pc = 1 => io_log = <<>>
    /\ result \in {"UnsupportedFeatureSet", "Syntax(Io)", "Syntax(Deserialize)"}
          => /\ output_file = output_before
             /\ ~Contains(io_log, "open_output")
             /\ ~Contains(io_log, "write_output")
    /\ result = "UnsupportedFeatureSet" => io_log = <<>>

C10_Witness ==
    /\ result = "Syntax(Deserialize)"
    /\ output_before.exists
    /\ output_file = output_before
    /\ io_log = <<"read_input">>

====
